---- MODULE Spec2Model ----
(***************************************************************************)
(* Position allocation and wine lifecycle of carlos-wine.                  *)
(*                                                                         *)
(* The store is modelled as the two tables the lifecycle operations touch  *)
(* (wines, positions) plus the storage table's row count, once for the     *)
(* SQLite code of src/database.py and once for the Supabase code of        *)
(* src/services/supabase_service.py; `backend` says which one a behaviour  *)
(* runs.  Every handler is one action.  A handler is a sequence of row     *)
(* writes interleaved with reads; the writes are computed as a sequence    *)
(* so that a store failure can cut the handler after any prefix.           *)
(*                                                                         *)
(* The tables are what a read through the handlers' connection returns.   *)
(* SQLite: a handler that returns early or raises neither commits nor      *)
(* rolls back, so the writes it made stay in the connection's open         *)
(* transaction, every later read of the connection sees them and the next  *)
(* conn.commit() makes them durable.  Dropping the connection instead      *)
(* returns the tables to their value at the last commit, which is a value  *)
(* they had before, so it adds no table contents and is not an action.     *)
(* Supabase: every execute() is its own durable request.  The names        *)
(* sqlite3, json, datetime and uuid, which database.py imports inside      *)
(* __init__ only, are taken as resolved in its handlers.                   *)
(***************************************************************************)
EXTENDS Integers, Sequences, FiniteSets, TLC

\* ---- bounds ----
MaxWines == 3
MaxPositions == 2

NULL == 0
\* datetime.now().isoformat(), whatever the time
Now == 1
WineIds == 1..MaxWines
PosIds == 1..MaxPositions
\* an id no wine row ever has, and an id no position row ever has
NoSuchWine == MaxWines + 1
NoSuchPosition == MaxPositions + 1
Backends == {"sqlite", "supabase"}

\* browser sessions in an add flow at a time
MaxSessions == 2
Sessions == 1..MaxSessions

\* picked: per browser session, the position read as available and selected
\* for the wine being added; mirror: the tables and the last return value of
\* a second store, run in step with the first when the backends are compared
\*
\* response: the raw text the storage-layout model answered with, while it
\* is being parsed; message: the kind of the last assistant message the chat
\* appended
VARIABLES backend, wines, positions, storage, last, picked, mirror, response, message,
          password_correct, conversation_mode, temp_wine_to_move

vars == <<backend, wines, positions, storage, last, picked, mirror, response, message,
          password_correct, conversation_mode, temp_wine_to_move>>

\* st.session_state of the one browser session the chat is followed in
session == <<password_correct, conversation_mode, temp_wine_to_move>>

\* the tables as one value
DB == [wines |-> wines, positions |-> positions, storage |-> storage]

\* ---- rows ----
WineRow(p) == [position_id |-> p, consumed |-> FALSE, consumed_date |-> NULL]
PositionRow(z, i) == [zone |-> z, identifier |-> i, is_occupied |-> FALSE, wine_id |-> NULL]

\* ---- row writes ----
\* UPDATE positions SET is_occupied = occ, wine_id = w WHERE id = p
WPos(p, occ, w) == [t |-> "pos", id |-> p, occ |-> occ, wine |-> w]
\* UPDATE wines SET position_id = p WHERE id = w
WWinePos(w, p) == [t |-> "winepos", id |-> w, pos |-> p]
\* UPDATE wines SET consumed = 1, consumed_date = now, position_id = NULL WHERE id = w
WConsume(w) == [t |-> "consume", id |-> w]
\* INSERT INTO wines (id, ..., position_id, ..., consumed) VALUES (w, ..., p, ..., 0)
WInsert(w, p) == [t |-> "insert", id |-> w, pos |-> p]
\* INSERT INTO storage ...
WStorage == [t |-> "storage"]
\* INSERT INTO positions (id, storage_id, zone, identifier, is_occupied) for each row of rows
WInsertPositions(rows) == [t |-> "inspos", rows |-> rows]

\* One write applied to the tables.  An UPDATE whose WHERE matches no row
\* changes nothing.
ApplyWrite(db, wr) ==
    CASE wr.t = "pos" ->
           IF wr.id \in DOMAIN db.positions
           THEN [db EXCEPT !.positions[wr.id].is_occupied = wr.occ,
                           !.positions[wr.id].wine_id = wr.wine]
           ELSE db
      [] wr.t = "winepos" ->
           IF wr.id \in DOMAIN db.wines
           THEN [db EXCEPT !.wines[wr.id].position_id = wr.pos]
           ELSE db
      [] wr.t = "consume" ->
           IF wr.id \in DOMAIN db.wines
           THEN [db EXCEPT !.wines[wr.id].consumed = TRUE,
                           !.wines[wr.id].consumed_date = Now,
                           !.wines[wr.id].position_id = NULL]
           ELSE db
      [] wr.t = "insert" ->
           [db EXCEPT !.wines = (wr.id :> WineRow(wr.pos)) @@ db.wines]
      [] wr.t = "storage" ->
           [db EXCEPT !.storage = db.storage + 1]
      [] wr.t = "inspos" ->
           [db EXCEPT !.positions =
               [i \in {wr.rows[k].id : k \in 1..Len(wr.rows)} |->
                   LET k == CHOOSE k \in 1..Len(wr.rows) : wr.rows[k].id = i
                   IN PositionRow(wr.rows[k].zone, wr.rows[k].identifier)]
               @@ db.positions]

RECURSIVE ApplyWrites(_, _, _)
\* the first n writes of ws applied in order
ApplyWrites(db, ws, n) ==
    IF n = 0 \/ ws = <<>> THEN db
    ELSE ApplyWrites(ApplyWrite(db, Head(ws)), Tail(ws), n - 1)

\* what a handler does when nothing outside it fails: the writes it issues
\* in order, what it returns ("success": True or the new id; "failure":
\* False or None; "raised": an exception leaves the handler) and the
\* branch it took
Plan(ws, res, path) == [writes |-> ws, result |-> res, path |-> path]

\* ---- add_wine ----
\* the INSERT is refused by the wines primary key, and on Supabase by the
\* wines.position_id foreign key that get_wines' embedded select relies on
AddInsertFails(db, b, w, p) ==
    \/ w \in DOMAIN db.wines
    \/ b = "supabase" /\ p # NULL /\ p \notin DOMAIN db.positions

\* add_wine that inserts the wine and leaves the position row alone: the
\* variant C16 tells apart from the handler
AddWrites_NoPositionUpdate(w, p) == <<WInsert(w, p)>>

AddWrites(w, p) ==
    (IF p # NULL THEN <<WPos(p, TRUE, w)>> ELSE <<>>) \o <<WInsert(w, p)>>

add_wine(db, b, w, p) ==
    IF AddInsertFails(db, b, w, p)
    THEN Plan(SubSeq(AddWrites(w, p), 1, Len(AddWrites(w, p)) - 1),
              IF b = "sqlite" THEN "raised" ELSE "failure", "insert_refused")
    ELSE Plan(AddWrites(w, p), "success", "inserted")

\* ---- mark_wine_consumed ----
\* mark_wine_consumed that clears the flag of the position and leaves its
\* wine_id: the variant C37 tells apart from the handler
ConsumeWrites_FlagOnly(w, position_id) ==
    <<WConsume(w)>> \o
    (IF position_id # NULL THEN <<WPos(position_id, FALSE, w)>> ELSE <<>>)

\* mark_wine_consumed that never frees the position: the variant C13 tells
\* apart from the handler
ConsumeWrites_NoRelease(w, position_id) == <<WConsume(w)>>

ConsumeWrites(w, position_id) ==
    <<WConsume(w)>> \o
    (IF position_id # NULL THEN <<WPos(position_id, FALSE, NULL)>> ELSE <<>>)

\* mark_wine_consumed that updates without looking the wine up first: the
\* variant C27 tells apart from the handler
mark_wine_consumed_NoLookup(db, b, w) == Plan(<<WConsume(w)>>, "success", "no_position")

mark_wine_consumed(db, b, w) ==
    IF w \notin DOMAIN db.wines
    THEN Plan(<<>>, "failure", "no_wine")
    ELSE Plan(ConsumeWrites(w, db.wines[w].position_id), "success",
              IF db.wines[w].position_id # NULL THEN "released" ELSE "no_position")

\* ---- move_wine_to_position ----
\* "Free up current position if it exists"
\* move_wine_to_position that leaves the source position as it was: the
\* variant C12 tells apart from the handler
MoveFreeWrites_SourceKept(cur) == <<>>

MoveFreeWrites(cur) ==
    IF cur # NULL THEN <<WPos(cur, FALSE, NULL)>> ELSE <<>>

\* the wines the handler may take for the occupant of p, read after the
\* source was freed.  SQLite: fetchone() of the unconsumed wines whose
\* position_id is p, in no stated order.
SqliteOccupiedWines(db1, p) ==
    {x \in DOMAIN db1.wines : db1.wines[x].position_id = p /\ ~db1.wines[x].consumed}

\* Supabase: the wine_id of the position row
SupabaseOccupiedWines(db1, p) == {db1.positions[p].wine_id}

OccupiedWines(db1, b, p) ==
    IF b = "sqlite" THEN SqliteOccupiedWines(db1, p) ELSE SupabaseOccupiedWines(db1, p)

\* "If position is occupied, we need to move the wine that's there first":
\* the writes for occupant ow (NULL: no unconsumed wine found at p)
SqliteSwapWrites(cur, ow) ==
    IF ow = NULL THEN <<>>
    ELSE <<WWinePos(ow, cur)>> \o
         (IF cur # NULL THEN <<WPos(cur, TRUE, ow)>> ELSE <<>>)

\* "If position is occupied, swap wines": only when the moved wine has a
\* current position
SupabaseSwapWrites(cur, ow) ==
    IF cur # NULL
    THEN <<WWinePos(ow, cur), WPos(cur, TRUE, ow)>>
    ELSE <<>>

\* a swap that retires the occupant instead of moving it: the variant C39
\* tells apart from the handler
MoveSwapWrites_OccupantRetired(b, cur, ow) ==
    IF ow = NULL THEN <<>> ELSE <<WConsume(ow)>>

MoveSwapWrites(b, cur, ow) ==
    IF b = "sqlite" THEN SqliteSwapWrites(cur, ow) ELSE SupabaseSwapWrites(cur, ow)

\* a move that puts the wine back among the unconsumed ones: the variant
\* C40 tells apart from the handler
MovePlaceWrites_Restocked(w, p) == <<WInsert(w, p), WPos(p, TRUE, w)>>

\* "Move the wine to the new position"
MovePlaceWrites(w, p) == <<WWinePos(w, p), WPos(p, TRUE, w)>>

\* ow is the wine the occupant read returned; it is used only when the
\* destination reads as occupied
move_wine_to_position(db, b, w, p, ow) ==
    IF w \notin DOMAIN db.wines
    THEN Plan(<<>>, "failure", "no_wine")
    ELSE LET cur == db.wines[w].position_id
             free == MoveFreeWrites(cur)
             db1 == ApplyWrites(db, free, Len(free))
         IN IF p \notin DOMAIN db1.positions
            THEN Plan(free, "failure", "no_destination")
            ELSE IF db1.positions[p].is_occupied
                 THEN Plan(free \o MoveSwapWrites(b, cur, ow) \o MovePlaceWrites(w, p),
                           "success",
                           IF cur # NULL THEN "occupied" ELSE "occupied_no_source")
                 ELSE Plan(free \o MovePlaceWrites(w, p), "success",
                           IF cur # NULL THEN "free" ELSE "free_no_source")

\* the values the occupant read can return in state db
MoveOccupants(db, b, w, p) ==
    IF w \notin DOMAIN db.wines THEN {NULL}
    ELSE LET cur == db.wines[w].position_id
             free == MoveFreeWrites(cur)
             db1 == ApplyWrites(db, free, Len(free))
         IN IF p \in DOMAIN db1.positions /\ db1.positions[p].is_occupied
            THEN IF OccupiedWines(db1, b, p) = {} THEN {NULL}
                 ELSE OccupiedWines(db1, b, p)
            ELSE {NULL}

\* ---- get_wines ----
\* the ids of the rows returned.  SQLite: wines LEFT JOIN positions, every
\* wine row passes the join.  Supabase: the positions!inner embed keeps only
\* the wines whose position_id names a position row.
SqliteGetWines(db, include_consumed) ==
    {w \in DOMAIN db.wines : include_consumed \/ ~db.wines[w].consumed}

SupabaseGetWines(db, include_consumed) ==
    {w \in DOMAIN db.wines :
        /\ db.wines[w].position_id \in DOMAIN db.positions
        /\ (include_consumed \/ ~db.wines[w].consumed)}

\* a listing that ignores the consumed flag: the variant C19 tells apart
\* from the handler
get_wines_Unfiltered(db, b, include_consumed) == DOMAIN db.wines

get_wines(db, b, include_consumed) ==
    IF b = "sqlite" THEN SqliteGetWines(db, include_consumed)
                    ELSE SupabaseGetWines(db, include_consumed)

\* ---- delete_wine ----
\* WineService.delete_wine calls Database.delete_wine, a method neither
\* Database nor SupabaseService has: the call raises AttributeError
delete_wine(db, b, w) == Plan(<<>>, "raised", "no_method")

\* ---- save_storage ----
Zone(name, idents) == [name |-> name, positions |-> idents, has_positions |-> TRUE]
\* a zone object without its "positions" key
ZoneWithoutPositions(name) == [name |-> name, positions |-> <<>>, has_positions |-> FALSE]
Layouts ==
    { <<Zone("White Wine Zone", <<"W1">>), Zone("Red Wine Zone", <<"R1">>)>> }

RECURSIVE LayoutPositions(_)
\* the (zone, identifier) entries of a layout in listed order
LayoutPositions(zones) ==
    IF zones = <<>> THEN <<>>
    ELSE [k \in 1..Len(Head(zones).positions) |->
             [zone |-> Head(zones).name, identifier |-> Head(zones).positions[k]]]
         \o LayoutPositions(Tail(zones))

\* the k-th id not yet used by a position row (a new uuid)
RECURSIVE FreshPos(_, _)
FreshPos(used, k) ==
    LET ids == 1..(Cardinality(used) + 1) \ used
        m == CHOOSE i \in ids : \A j \in ids : i <= j
    IN IF k = 1 THEN m ELSE FreshPos(used \cup {m}, k - 1)

NewPositionRows(db, zones) ==
    [k \in 1..Len(LayoutPositions(zones)) |->
        [id |-> FreshPos(DOMAIN db.positions, k),
         zone |-> LayoutPositions(zones)[k].zone,
         identifier |-> LayoutPositions(zones)[k].identifier]]

\* the zones before the first one that has no "positions" key
RECURSIVE ZonesListed(_)
ZonesListed(zones) ==
    IF zones = <<>> \/ ~Head(zones).has_positions THEN <<>>
    ELSE <<Head(zones)>> \o ZonesListed(Tail(zones))

\* save_storage that writes the storage row and no position: the variant
\* C22 tells apart from the handler
save_storage_Unpositioned(db, b, zones) == Plan(<<WStorage>>, "success", "saved")

\* SQLite inserts the positions one statement at a time, Supabase in one
\* request.  zone["positions"] of a zone without the key raises KeyError:
\* on SQLite inside the loop, after the inserts made so far, and out of the
\* handler; on Supabase while the rows are collected, after the storage
\* insert and before the positions insert, and into the except clause.
save_storage(db, b, zones) ==
    LET rows == NewPositionRows(db, ZonesListed(zones))
        complete == Len(ZonesListed(zones)) = Len(zones)
    IN IF b = "sqlite"
       THEN Plan(<<WStorage>> \o [k \in 1..Len(rows) |-> WInsertPositions(<<rows[k]>>)],
                 IF complete THEN "success" ELSE "raised",
                 IF complete THEN "saved" ELSE "zone_without_positions")
       ELSE IF complete
            THEN Plan(<<WStorage>> \o (IF rows # <<>> THEN <<WInsertPositions(rows)>> ELSE <<>>),
                      "success", "saved")
            ELSE Plan(<<WStorage>>, "failure", "zone_without_positions")

\* ---- the storage-layout parser ----
\* The model's answer as a sequence of tokens: braces, a comma, zone
\* entries (W: a white zone with W1, W2; R: a red zone with R1, R2; w: a
\* zone named in lower case with S1; Z: a zone without a positions list),
\* prose (t) and the markdown fences.  The
\* separators between entries are part of the entries; a "," stands for a
\* comma that JSON does not allow where it is.
MaxResponseLen == 4
ZoneTokens == {"W", "R", "w", "Z"}
Tokens == {"{", "}", ",", "t", "fence_json", "fence"} \cup ZoneTokens
RawOutputs == UNION {[1..n -> Tokens] : n \in 0..MaxResponseLen}

ZoneOf(tok) ==
    CASE tok = "W" -> Zone("White Wine Zone", <<"W1", "W2">>)
      [] tok = "R" -> Zone("Red Wine Zone", <<"R1", "R2">>)
      [] tok = "w" -> Zone("white shelf", <<"S1">>)
      [] tok = "Z" -> ZoneWithoutPositions("Cellar Floor")

\* what get_storage_configuration hands on as data
NoneData == [kind |-> "none", zones |-> <<>>, total_positions |-> 0]
Layout(zones, n) == [kind |-> "layout", zones |-> zones, total_positions |-> n]
ObjectWithoutZones == [kind |-> "no_zones", zones |-> <<>>, total_positions |-> 0]
DefaultLayout == Layout(<<Zone("General Storage", <<"A1", "A2", "B1", "B2">>)>>, 4)

\* the markdown fences: startswith / endswith of three backquotes
StripFences(text) ==
    LET a == IF text # <<>> /\ Head(text) = "fence_json" THEN Tail(text) ELSE text
    IN IF a # <<>> /\ a[Len(a)] = "fence" THEN SubSeq(a, 1, Len(a) - 1) ELSE a

\* json.loads: does it return, and with what
JsonValid(text) ==
    /\ Len(text) >= 2 /\ text[1] = "{" /\ text[Len(text)] = "}"
    /\ \A i \in 2..(Len(text) - 1) : text[i] \in ZoneTokens

JsonLoads(text) ==
    IF Len(text) = 2 THEN ObjectWithoutZones
    ELSE LET zones == [i \in 1..(Len(text) - 2) |-> ZoneOf(text[i + 1])]
         IN Layout(zones, Len(LayoutPositions(zones)))

\* strategy 2, the re.sub on trailing commas: a comma right before a closing brace goes
RemoveTrailingCommas(text) ==
    SelectSeq([i \in 1..Len(text) |->
                  IF text[i] = "," /\ i < Len(text) /\ text[i + 1] = "}" THEN "" ELSE text[i]],
              LAMBDA tok : tok # "")

\* strategy 3, the re.search for a braced object: from the first "{" to the last
\* "}" after it; <<>> when there is no such stretch
HasBracedObject(text) ==
    \E i, j \in 1..Len(text) : i < j /\ text[i] = "{" /\ text[j] = "}"

BracedObject(text) ==
    LET i == CHOOSE i \in 1..Len(text) :
                 text[i] = "{" /\ \A k \in 1..(i - 1) : text[k] # "{"
        j == CHOOSE j \in 1..Len(text) :
                 text[j] = "}" /\ \A k \in (j + 1)..Len(text) : text[k] # "}"
    IN SubSeq(text, i, j)

ParseResult(ok, data, path) == [success |-> ok, data |-> data, path |-> path]

\* api_ok: the completion request returned a message with content
get_storage_configuration(api_ok, raw) ==
    LET text == StripFences(raw)
        fixed == RemoveTrailingCommas(text)
    IN IF ~api_ok THEN ParseResult(FALSE, NoneData, "api_error")
       ELSE IF JsonValid(text) THEN ParseResult(TRUE, JsonLoads(text), "direct")
       ELSE IF JsonValid(fixed) THEN ParseResult(TRUE, JsonLoads(fixed), "repaired")
       ELSE IF HasBracedObject(text)
            THEN IF JsonValid(BracedObject(text))
                 THEN ParseResult(TRUE, JsonLoads(BracedObject(text)), "extracted")
                 ELSE ParseResult(TRUE, DefaultLayout, "fallback")
            ELSE ParseResult(TRUE, NoneData, "no_object")

\* none of the three strategies parses the text
Unparseable(raw) ==
    LET text == StripFences(raw)
    IN /\ ~JsonValid(text)
       /\ ~JsonValid(RemoveTrailingCommas(text))
       /\ ~(HasBracedObject(text) /\ JsonValid(BracedObject(text)))

\* StorageService.create_storage on what the parser handed on: data that is
\* None or has no "zones" key raises in save_storage before any write
create_storage(db, b, data) ==
    IF data.kind = "layout" THEN save_storage(db, b, data.zones)
    ELSE Plan(<<>>, IF b = "sqlite" THEN "raised" ELSE "failure", "no_zones")

\* ---- the position allocator ----
\* Texts are spelled out, so that lower() and "in" are what they are in
\* the code: a change of letters and a search for a stretch of letters.
Uppers == <<"A", "B", "C", "D", "E", "F", "G", "H", "I", "J", "K", "L", "M", "N", "O", "P", "Q", "R", "S", "T", "U", "V", "W", "X", "Y", "Z">>
Lowers == <<"a", "b", "c", "d", "e", "f", "g", "h", "i", "j", "k", "l", "m", "n", "o", "p", "q", "r", "s", "t", "u", "v", "w", "x", "y", "z">>

LowerChar(c) ==
    IF \E i \in 1..Len(Uppers) : Uppers[i] = c
    THEN Lowers[CHOOSE i \in 1..Len(Uppers) : Uppers[i] = c]
    ELSE c

\* str.lower()
Lower(text) == [i \in 1..Len(text) |-> LowerChar(text[i])]

\* sub in text
In(sub, text) ==
    \E i \in 0..(Len(text) - Len(sub)) : SubSeq(text, i + 1, i + Len(sub)) = sub

Spelling(name) ==
    CASE name = "White Wine Zone" -> <<"W", "h", "i", "t", "e", " ", "W", "i", "n", "e", " ", "Z", "o", "n", "e">>
      [] name = "Red Wine Zone" -> <<"R", "e", "d", " ", "W", "i", "n", "e", " ", "Z", "o", "n", "e">>
      [] name = "white shelf" -> <<"w", "h", "i", "t", "e", " ", "s", "h", "e", "l", "f">>
      [] name = "General Storage" -> <<"G", "e", "n", "e", "r", "a", "l", " ", "S", "t", "o", "r", "a", "g", "e">>
      [] name = "Cellar Floor" -> <<"C", "e", "l", "l", "a", "r", " ", "F", "l", "o", "o", "r">>

\* wine_data["description"] as analyze_wine_label returns it: a text, or a
\* dict with a wine_type
TextDescription(text) == [structured |-> FALSE, wine_type |-> <<>>, text |-> text]
StructuredDescription(wine_type) == [structured |-> TRUE, wine_type |-> wine_type, text |-> <<>>]
Descriptions ==
    { TextDescription(<<"a", " ", "W", "H", "I", "T", "E">>),
      TextDescription(<<"C", "h", "e", "n", "i", "n", " ", "B", "l", "a", "n", "c">>),
      TextDescription(<<"M", "a", "l", "b", "e", "c">>),
      StructuredDescription(<<"W", "h", "i", "t", "e">>),
      StructuredDescription(<<"R", "e", "d">>) }

\* is_white_wine without lower(): the variant C24 tells apart from the
\* allocator
is_white_wine_CaseSensitive(d) ==
    LET t == IF d.structured THEN d.wine_type ELSE d.text
    IN In(<<"w", "h", "i", "t", "e">>, t) \/ In(<<"b", "l", "a", "n", "c">>, t)

is_white_wine(d) ==
    LET t == Lower(IF d.structured THEN d.wine_type ELSE d.text)
    IN In(<<"w", "h", "i", "t", "e">>, t) \/ In(<<"b", "l", "a", "n", "c">>, t)

\* an allocator that takes any zone for any wine: the variant C21 tells
\* apart from the allocator
Appropriate_AnyZone(pos, white) == TRUE

\* "White" in pos["zone"] for a white wine, "Red" in pos["zone"] otherwise
Appropriate(pos, white) ==
    IF white THEN In(<<"W", "h", "i", "t", "e">>, Spelling(pos.zone))
             ELSE In(<<"R", "e", "d">>, Spelling(pos.zone))

\* an allocator without the fallback to the full list: the variant C23
\* tells apart from the allocator
Suggest_NoFallback(list, d) ==
    LET appropriate_positions == SelectSeq(list, LAMBDA pos : Appropriate(pos, is_white_wine(d)))
    IN IF appropriate_positions = <<>> THEN NULL ELSE appropriate_positions[1].id

\* process_image: position = appropriate_positions[0], the id of it; NULL
\* when no position is available and nothing is suggested
Suggest(list, d) ==
    LET appropriate_positions == SelectSeq(list, LAMBDA pos : Appropriate(pos, is_white_wine(d)))
    IN IF list = <<>> THEN NULL
       ELSE IF appropriate_positions = <<>> THEN list[1].id
       ELSE appropriate_positions[1].id

\* st.selectbox(options = the available positions, index = 0): what is
\* selected when the user does not touch the dropdown
DefaultSelection(list) == list[1].id

\* the rows a select on positions returns, in the order they were inserted
PositionList(db, ids) ==
    [k \in 1..Cardinality(ids) |->
        LET p == CHOOSE p \in ids : Cardinality({q \in ids : q < p}) = k - 1
        IN [id |-> p, zone |-> db.positions[p].zone,
            identifier |-> db.positions[p].identifier,
            is_occupied |-> db.positions[p].is_occupied,
            wine_id |-> db.positions[p].wine_id]]

get_all_positions(db, b) == PositionList(db, DOMAIN db.positions)

AvailablePositions(db, b) ==
    PositionList(db, {p \in DOMAIN db.positions : ~db.positions[p].is_occupied})

\* ---- the position lists of the move flow ----
\* position_options: a dict from the text shown for a position to the
\* position.  A text put in twice keeps its first place and its last
\* position.
Option(row, marked) ==
    [key |-> [identifier |-> row.identifier, zone |-> row.zone, occupied |-> marked],
     id |-> row.id]

\* list(position_options.values()) after the items were put in in order
DictValues(items) ==
    LET firsts == {i \in DOMAIN items : \A j \in 1..(i - 1) : items[j].key # items[i].key}
    IN [n \in 1..Cardinality(firsts) |->
           LET i == CHOOSE i \in firsts : Cardinality({j \in firsts : j < i}) = n - 1
               m == CHOOSE m \in DOMAIN items :
                       /\ items[m].key = items[i].key
                       /\ \A j \in (m + 1)..Len(items) : items[j].key # items[i].key
           IN items[m].id]

\* the rows of get_all_positions() but the one the wine is at
OtherPositions(db, b, position_id) ==
    SelectSeq(get_all_positions(db, b), LAMBDA row : row.id # position_id)

\* change_position: the list shown to the user, numbered from 1: the
\* available positions, then every position but the wine's own under a
\* text that ends in OCCUPIED
DisplayedOptions(db, b, position_id) ==
    LET available == AvailablePositions(db, b)
        others == OtherPositions(db, b, position_id)
    IN DictValues([i \in DOMAIN available |-> Option(available[i], FALSE)]
                  \o [i \in DOMAIN others |-> Option(others[i], TRUE)])

\* select_new_position: the list the answer is looked up in: every position
\* but the wine's own
SelectableOptions(db, b, position_id) ==
    LET others == OtherPositions(db, b, position_id)
    IN DictValues([i \in DOMAIN others |-> Option(others[i], FALSE)])

\* the mode the change_position handler leaves the conversation in once the
\* user named a wine
change_position(db, b) ==
    IF AvailablePositions(db, b) # <<>> THEN "select_new_position" ELSE "general"

\* ---- the store ----
\* the arguments a caller can pass: the ids of the rows there are and an id
\* of no row; a new wine gets the next unused id (a new uuid) unless the
\* caller passes the id of a wine there is
WineArgs == DOMAIN wines \cup {NoSuchWine}
PosArgs == DOMAIN positions \cup {NoSuchPosition}
NewWineIds == {w \in WineIds : w \notin DOMAIN wines /\ \A v \in WineIds : v < w => v \in DOMAIN wines}

Last(op, res, path) == [op |-> op, result |-> res, path |-> path]

\* the first n writes of a handler's plan reach the tables
Store(op, plan, n, res) ==
    LET db2 == ApplyWrites(DB, plan.writes, n)
    IN /\ wines' = db2.wines
       /\ positions' = db2.positions
       /\ storage' = db2.storage
       /\ last' = Last(op, res, plan.path)
       /\ UNCHANGED backend

\* A handler run, called on its own
Run(op, plan, n, res) ==
    Store(op, plan, n, res) /\ UNCHANGED <<picked, mirror, response, message>> /\ UNCHANGED session

Complete(op, plan) == Run(op, plan, Len(plan.writes), plan.result)

\* st.session_state.temp_wine_to_move: the row of get_wines() the user
\* named in change_position mode, None otherwise
NoWineToMove == [id |-> NULL, position_id |-> NULL]
WineToMove(db, w) == [id |-> w, position_id |-> db.wines[w].position_id]

\* empty tables, a new session
InitStore ==
    /\ backend \in Backends
    /\ wines = <<>>
    /\ positions = <<>>
    /\ storage = 0
    /\ last = Last("init", "success", "init")
    /\ picked = [s \in Sessions |-> NULL]
    /\ mirror = [wines |-> <<>>, positions |-> <<>>, storage |-> 0, result |-> "success"]
    /\ message = "none"
    /\ conversation_mode = "general"
    /\ temp_wine_to_move = NoWineToMove

\* before the password was entered
Init == InitStore /\ response = <<>> /\ password_correct = "unset"

SaveStorageCall(zones) ==
    /\ Len(LayoutPositions(zones)) <= Cardinality(PosIds \ DOMAIN positions)
    /\ Complete("save_storage", save_storage(DB, backend, zones))

AddWineCall(w, p) == Complete("add_wine", add_wine(DB, backend, w, p))

MarkWineConsumedCall(w) == Complete("mark_wine_consumed", mark_wine_consumed(DB, backend, w))

MoveWineToPositionCall(w, p) ==
    \E ow \in MoveOccupants(DB, backend, w, p) :
        Complete("move_wine_to_position", move_wine_to_position(DB, backend, w, p, ow))

DeleteWineCall(w) == Complete("delete_wine", delete_wine(DB, backend, w))

SaveStorage == \E zones \in Layouts : SaveStorageCall(zones)

AddWine == \E w \in DOMAIN wines \cup NewWineIds, p \in PosArgs \cup {NULL} : AddWineCall(w, p)

MarkWineConsumed == \E w \in WineArgs : MarkWineConsumedCall(w)

MoveWineToPosition == \E w \in WineArgs, p \in PosArgs : MoveWineToPositionCall(w, p)

DeleteWine == \E w \in WineArgs : DeleteWineCall(w)

Next ==
    \/ SaveStorage
    \/ AddWine
    \/ MarkWineConsumed
    \/ MoveWineToPosition
    \/ DeleteWine

Spec == Init /\ [][Next]_vars

\* ---- store failures ----
\* A request to the store fails inside a handler after n of its writes:
\* Supabase's handlers catch the exception and return False, SQLite's let it
\* out; neither undoes the n writes.
Interrupted(op, plan, n) ==
    /\ n < Len(plan.writes)
    /\ Run(op, plan, n, IF backend = "sqlite" THEN "raised" ELSE "failure")

\* how many writes a cut handler can have made: at least one, and fewer
\* than the five of the longest handler, a swap by move_wine_to_position
CutPoints == 1..4

MarkWineConsumedFailsAt(w, n) ==
    Interrupted("mark_wine_consumed", mark_wine_consumed(DB, backend, w), n)

MoveWineToPositionFailsAt(w, p, n) ==
    \E ow \in MoveOccupants(DB, backend, w, p) :
        Interrupted("move_wine_to_position", move_wine_to_position(DB, backend, w, p, ow), n)

MarkWineConsumedFails == \E w \in WineArgs, n \in CutPoints : MarkWineConsumedFailsAt(w, n)

MoveWineToPositionFails ==
    \E w \in WineArgs, p \in PosArgs, n \in CutPoints : MoveWineToPositionFailsAt(w, p, n)

NextFault ==
    \/ Next
    \/ MarkWineConsumedFails
    \/ MoveWineToPositionFails

SpecFault == Init /\ [][NextFault]_vars

\* ---- two add flows ----
\* process_image: the flow reads the available positions and one of them is
\* selected; the confirm button then adds the wine at the selected position.
\* Each browser session runs the flow on its own, on the same tables.
get_available_positions(db, b) == {p \in DOMAIN db.positions : ~db.positions[p].is_occupied}

SelectPositionCall(s, p) ==
    /\ picked[s] = NULL
    /\ p \in get_available_positions(DB, backend)
    /\ picked' = [picked EXCEPT ![s] = p]
    /\ UNCHANGED <<backend, wines, positions, storage, last, mirror, response, message>> /\ UNCHANGED session

ConfirmAddCall(s, w) ==
    /\ picked[s] # NULL
    /\ LET plan == add_wine(DB, backend, w, picked[s])
       IN Store("add_wine", plan, Len(plan.writes), plan.result)
    /\ picked' = [picked EXCEPT ![s] = NULL]
    /\ UNCHANGED <<mirror, response, message>> /\ UNCHANGED session

SelectPosition == \E s \in Sessions, p \in PosIds : SelectPositionCall(s, p)

ConfirmAdd == \E s \in Sessions, w \in NewWineIds : ConfirmAddCall(s, w)

NextRace ==
    \/ SaveStorage
    \/ SelectPosition
    \/ ConfirmAdd
    \/ MarkWineConsumed

SpecRace == Init /\ [][NextRace]_vars

\* ---- the two backends in step ----
\* The same calls with the same arguments go to a SQLite store (the tables)
\* and to a Supabase store (mirror), for as long as the two have agreed.
MirrorDB == [wines |-> mirror.wines, positions |-> mirror.positions, storage |-> mirror.storage]

Mirrored(plan) ==
    LET db2 == ApplyWrites(MirrorDB, plan.writes, Len(plan.writes))
    IN [wines |-> db2.wines, positions |-> db2.positions, storage |-> db2.storage,
        result |-> plan.result]

Agree ==
    /\ mirror.wines = wines
    /\ mirror.positions = positions
    /\ mirror.result = last.result

Both(op, sqlite_plan, supabase_plan) ==
    /\ Agree
    /\ Store(op, sqlite_plan, Len(sqlite_plan.writes), sqlite_plan.result)
    /\ mirror' = Mirrored(supabase_plan)
    /\ UNCHANGED <<picked, response, message>> /\ UNCHANGED session

BothSaveStorage ==
    \E zones \in Layouts :
        /\ Len(LayoutPositions(zones)) <= Cardinality(PosIds \ DOMAIN positions)
        /\ Both("save_storage", save_storage(DB, "sqlite", zones),
                save_storage(MirrorDB, "supabase", zones))

BothAddWine ==
    \E w \in DOMAIN wines \cup NewWineIds, p \in PosArgs \cup {NULL} :
        Both("add_wine", add_wine(DB, "sqlite", w, p), add_wine(MirrorDB, "supabase", w, p))

BothMarkWineConsumed ==
    \E w \in WineArgs :
        Both("mark_wine_consumed", mark_wine_consumed(DB, "sqlite", w),
             mark_wine_consumed(MirrorDB, "supabase", w))

BothMoveWineToPosition ==
    \E w \in WineArgs, p \in PosArgs :
        \E ow \in MoveOccupants(DB, "sqlite", w, p), mow \in MoveOccupants(MirrorDB, "supabase", w, p) :
            Both("move_wine_to_position", move_wine_to_position(DB, "sqlite", w, p, ow),
                 move_wine_to_position(MirrorDB, "supabase", w, p, mow))

InitBoth == Init /\ backend = "sqlite"

NextBoth ==
    \/ BothSaveStorage
    \/ BothAddWine
    \/ BothMarkWineConsumed
    \/ BothMoveWineToPosition

SpecBoth == InitBoth /\ [][NextBoth]_vars

\* ---- callers that validate ----
\* The handlers called only with the arguments a careful caller passes:
\* add_wine with a new wine and a position that exists and is unoccupied,
\* mark_wine_consumed with a wine that exists and is unconsumed,
\* move_wine_to_position with an unconsumed wine that has a position and
\* with a position that exists.
\* the layout is built once, before the first wine
FreshLayouts == Layouts \cup {<<ZoneOf("W"), ZoneOf("R")>>}

BuildLayout ==
    \E zones \in FreshLayouts :
        storage = 0 /\ Complete("save_storage", save_storage(DB, backend, zones))

ValidAddWine ==
    \E w \in NewWineIds, p \in get_available_positions(DB, backend) : AddWineCall(w, p)

ValidMarkWineConsumed ==
    \E w \in DOMAIN wines : ~wines[w].consumed /\ MarkWineConsumedCall(w)

ValidMoveWineToPosition ==
    \E w \in DOMAIN wines, p \in DOMAIN positions :
        /\ ~wines[w].consumed
        /\ wines[w].position_id # NULL
        /\ MoveWineToPositionCall(w, p)

NextValid ==
    \/ BuildLayout
    \/ ValidAddWine
    \/ ValidMarkWineConsumed
    \/ ValidMoveWineToPosition

SpecValid == Init /\ [][NextValid]_vars

\* ---- the parser on every answer ----
GetStorageConfigurationCall(api_ok) ==
    /\ last.op = "init"
    /\ LET r == get_storage_configuration(api_ok, response)
       IN last' = Last("get_storage_configuration",
                       IF r.success THEN "success" ELSE "failure", r.path)
    /\ UNCHANGED <<backend, wines, positions, storage, picked, mirror, response, message>> /\ UNCHANGED session

GetStorageConfiguration == \E api_ok \in BOOLEAN : GetStorageConfigurationCall(api_ok)

InitParse == InitStore /\ response \in RawOutputs /\ password_correct = "unset"

SpecParse == InitParse /\ [][GetStorageConfiguration]_vars

\* ---- the application ----
\* One browser session of src/app.py over the store: the storage_setup
\* handler, the add after a label was read, and the chat's mark_consumed
\* and select_new_position handlers.  message is the kind of the assistant
\* message appended last.
MaxCellarPositions == 4
MaxStorages == 2
CellarPosIds == 1..MaxCellarPositions

\* what the parser can hand to the storage_setup handler
ParsedResults ==
    {get_storage_configuration(api_ok, raw) : api_ok \in BOOLEAN, raw \in RawOutputs}

\* storage_data["zones"] after create_storage raises on data that is None
\* or has no zones, and the handler ends without a message
StorageSetupCall(r) ==
    /\ storage < MaxStorages
    /\ IF r.success
       THEN LET plan == create_storage(DB, backend, r.data)
            IN /\ DOMAIN ApplyWrites(DB, plan.writes, Len(plan.writes)).positions \subseteq CellarPosIds
               /\ Store("save_storage", plan, Len(plan.writes), plan.result)
               /\ message' = IF plan.result = "raised" \/ r.data.kind # "layout"
                             THEN message ELSE "storage_ready"
       ELSE /\ last' = Last("get_storage_configuration", "failure", r.path)
            /\ message' = "setup_failed"
            /\ UNCHANGED <<backend, wines, positions, storage>>
    /\ UNCHANGED <<picked, mirror, response>> /\ UNCHANGED session

\* "Confirm and Add to Collection": the wine described by d goes to the
\* position p selected among the available ones
AppAddCall(w, d, p) ==
    /\ \E i \in DOMAIN AvailablePositions(DB, backend) : AvailablePositions(DB, backend)[i].id = p
    /\ LET plan == add_wine(DB, backend, w, p)
       IN Store("add_wine", plan, Len(plan.writes), plan.result)
    /\ message' = "wine_added"
    /\ UNCHANGED <<picked, mirror, response>> /\ UNCHANGED session

\* mark_consumed mode: the wine is one of get_wines(); the result of
\* mark_wine_consumed is not looked at
ChatMarkConsumedCall(w) ==
    /\ w \in get_wines(DB, backend, FALSE)
    /\ LET plan == mark_wine_consumed(DB, backend, w)
       IN Store("mark_wine_consumed", plan, Len(plan.writes), plan.result)
    /\ message' = "marked_consumed"
    /\ UNCHANGED <<picked, mirror, response>> /\ UNCHANGED session

\* change_position and select_new_position modes, one after the other: the
\* wine is one of get_wines(), there is an available position, the target
\* is any position the answer can select; the result of
\* move_wine_to_position is not looked at
ChatMoveOffered(w, p) ==
    /\ w \in get_wines(DB, backend, FALSE)
    /\ change_position(DB, backend) = "select_new_position"
    /\ p \in DOMAIN positions \ {wines[w].position_id}
    /\ LET options == SelectableOptions(DB, backend, wines[w].position_id)
       IN \E k \in DOMAIN options : options[k] = p

ChatMoveCall(w, p) ==
    /\ ChatMoveOffered(w, p)
    /\ \E ow \in MoveOccupants(DB, backend, w, p) :
          LET plan == move_wine_to_position(DB, backend, w, p, ow)
          IN Store("move_wine_to_position", plan, Len(plan.writes), plan.result)
    /\ message' = "relocated"
    /\ UNCHANGED <<picked, mirror, response>> /\ UNCHANGED session

StorageSetup == \E r \in ParsedResults : StorageSetupCall(r)

AppAdd == \E w \in NewWineIds, d \in Descriptions, p \in CellarPosIds : AppAddCall(w, d, p)

ChatMarkConsumed == \E w \in WineIds : ChatMarkConsumedCall(w)

ChatMove == \E w \in WineIds, p \in CellarPosIds : ChatMoveCall(w, p)

NextApp ==
    \/ StorageSetup
    \/ AppAdd
    \/ ChatMarkConsumed
    \/ ChatMove

\* a session past the password gate
InitApp == InitStore /\ response = <<>> /\ password_correct = "true"

SpecApp == InitApp /\ [][NextApp]_vars

\* a store failure inside a chat handler's call: on Supabase the call
\* returns False and the handler goes on to its message, on SQLite the
\* exception ends the handler
ChatInterrupted(op, plan, n, said) ==
    /\ n < Len(plan.writes)
    /\ Store(op, plan, n, IF backend = "sqlite" THEN "raised" ELSE "failure")
    /\ message' = IF backend = "sqlite" THEN message ELSE said
    /\ UNCHANGED <<picked, mirror, response>> /\ UNCHANGED session

ChatMarkConsumedFailsAt(w, n) ==
    /\ w \in get_wines(DB, backend, FALSE)
    /\ ChatInterrupted("mark_wine_consumed", mark_wine_consumed(DB, backend, w), n,
                       "marked_consumed")

ChatMoveFailsAt(w, p, n) ==
    \E ow \in MoveOccupants(DB, backend, w, p) :
          ChatInterrupted("move_wine_to_position",
                          move_wine_to_position(DB, backend, w, p, ow), n, "relocated")

\* A session is followed up to its first failed store call.
StoreFailed ==
    /\ last.op \in {"mark_wine_consumed", "move_wine_to_position"}
    /\ last.result \in {"failure", "raised"}

StorageSetupInSession == ~StoreFailed /\ StorageSetup

AppAddInSession == ~StoreFailed /\ AppAdd

ChatMarkConsumedInSession == ~StoreFailed /\ ChatMarkConsumed

ChatMoveInSession == ~StoreFailed /\ ChatMove

ChatMarkConsumedFails ==
    ~StoreFailed /\ \E w \in WineIds, n \in 0..1 : ChatMarkConsumedFailsAt(w, n)

ChatMoveFails ==
    /\ ~StoreFailed
    /\ \E w \in WineIds, p \in CellarPosIds :
          ChatMoveOffered(w, p) /\ \E n \in 0..4 : ChatMoveFailsAt(w, p, n)

NextAppFault ==
    \/ StorageSetupInSession
    \/ AppAddInSession
    \/ ChatMarkConsumedInSession
    \/ ChatMoveInSession
    \/ ChatMarkConsumedFails
    \/ ChatMoveFails

SpecAppFault == InitApp /\ [][NextAppFault]_vars

\* ---- the chat, one input at a time ----
\* check_password: the input is drawn only while password_correct is not in
\* the session state; password_entered stores True or False
PasswordInputOffered == password_correct = "unset"

PasswordEnteredCall(correct) ==
    /\ PasswordInputOffered
    /\ password_correct' = IF correct THEN "true" ELSE "false"
    /\ UNCHANGED <<backend, wines, positions, storage, last, picked, mirror, response, message,
                   conversation_mode, temp_wine_to_move>>

PasswordEntered == \E correct \in BOOLEAN : PasswordEnteredCall(correct)

\* the script goes past the gate, and the input is not an answer awaited by
\* select_new_position
AtChat == password_correct = "true" /\ conversation_mode = "general"

StorageSetupAtChat == AtChat /\ StorageSetup

AppAddAtChat == AtChat /\ AppAdd

ChatMarkConsumedAtChat == AtChat /\ ChatMarkConsumed

\* change_position mode: the user names a wine of get_wines()
ChangePositionCall(w) ==
    /\ AtChat
    /\ w \in get_wines(DB, backend, FALSE)
    /\ temp_wine_to_move' = WineToMove(DB, w)
    /\ conversation_mode' = change_position(DB, backend)
    /\ message' = IF change_position(DB, backend) = "select_new_position"
                  THEN "where_to" ELSE "no_available_positions"
    /\ last' = Last("change_position", "success", change_position(DB, backend))
    /\ UNCHANGED <<backend, wines, positions, storage, picked, mirror, response, password_correct>>

\* select_new_position mode: the user answers with number k
SelectNewPositionCall(k) ==
    /\ password_correct = "true"
    /\ conversation_mode = "select_new_position"
    /\ LET options == SelectableOptions(DB, backend, temp_wine_to_move.position_id)
       IN IF k \in DOMAIN options
          THEN /\ \E ow \in MoveOccupants(DB, backend, temp_wine_to_move.id, options[k]) :
                    LET plan == move_wine_to_position(DB, backend, temp_wine_to_move.id,
                                                      options[k], ow)
                    IN Store("move_wine_to_position", plan, Len(plan.writes), plan.result)
               /\ message' = "relocated"
               /\ temp_wine_to_move' = NoWineToMove
               /\ conversation_mode' = "general"
          ELSE /\ message' = "position_not_found"
               /\ last' = Last("select_new_position", "failure", "position_not_found")
               /\ UNCHANGED <<backend, wines, positions, storage, temp_wine_to_move,
                              conversation_mode>>
    /\ UNCHANGED <<picked, mirror, response, password_correct>>

ChangePosition == \E w \in WineIds : ChangePositionCall(w)

\* the numbers of the list shown: two entries at most for every position
SelectNewPosition == \E k \in 1..(2 * MaxCellarPositions) : SelectNewPositionCall(k)

NextChat ==
    \/ PasswordEntered
    \/ StorageSetupAtChat
    \/ AppAddAtChat
    \/ ChatMarkConsumedAtChat
    \/ ChangePosition
    \/ SelectNewPosition

SpecChat == Init /\ [][NextChat]_vars

\* ---- shapes ----
TypeOK ==
    /\ backend \in Backends
    /\ DOMAIN wines \subseteq WineIds
    /\ DOMAIN positions \subseteq PosIds \cup CellarPosIds
    /\ \A w \in DOMAIN wines :
          /\ wines[w].position_id \in PosIds \cup CellarPosIds \cup {NoSuchPosition, NULL}
          /\ wines[w].consumed \in BOOLEAN
          /\ wines[w].consumed_date \in {NULL, Now}
    /\ \A p \in DOMAIN positions :
          /\ positions[p].is_occupied \in BOOLEAN
          /\ positions[p].wine_id \in WineIds \cup {NULL}
    /\ picked \in [Sessions -> PosIds \cup {NULL}]
    /\ response \in RawOutputs
    /\ message \in STRING
    /\ password_correct \in {"unset", "false", "true"}
    /\ conversation_mode \in {"general", "select_new_position"}
    /\ temp_wine_to_move.id \in WineIds \cup {NULL}
    /\ DOMAIN mirror.wines \subseteq WineIds
    /\ DOMAIN mirror.positions \subseteq PosIds

\* ---- reading the tables ----
Active(w) == w \in DOMAIN wines /\ ~wines[w].consumed
\* the unconsumed wines of db whose position_id is p
ActiveAt(db, p) == {w \in DOMAIN db.wines : ~db.wines[w].consumed /\ db.wines[w].position_id = p}
WinesAt(p) == ActiveAt(DB, p)
\* every position of db is occupied iff exactly one unconsumed wine references it
Occupancy(db) ==
    \A p \in DOMAIN db.positions :
        db.positions[p].is_occupied <=> Cardinality(ActiveAt(db, p)) = 1
\* the tables after a handler ran its plan to the end on db
After(db, plan) == ApplyWrites(db, plan.writes, Len(plan.writes))
\* wine w is stored at position p: w is unconsumed and references the row p
At(w, p) == p \in DOMAIN positions /\ w \in WinesAt(p)
IsMove == last'.op = "move_wine_to_position"
IsConsume == last'.op = "mark_wine_consumed"
IsAdd == last'.op = "add_wine"

\* ---- claims ----

\* C1: after every sequence of add_wine, mark_wine_consumed and
\* move_wine_to_position calls with arbitrary arguments, every position is
\* occupied iff exactly one unconsumed wine has its id as position_id.
C1_OccupancyInvariant == Occupancy(DB)

\* C2: in every reachable state no two unconsumed wines have the same
\* position_id: a position holds at most one active wine.  Stated for the
\* position_ids that name a position row, the least the claim says.
C2_AtMostOneActiveWine ==
    \A p \in DOMAIN positions : Cardinality(WinesAt(p)) <= 1

\* C3: add_wine with the id of an occupied position fails, inserts no wine
\* row and leaves the position row and the wine stored there unchanged.
C3_AddToOccupiedRejected ==
    [][\A w \in WineIds, p \in PosIds :
          (p \in DOMAIN positions /\ positions[p].is_occupied /\ AddWineCall(w, p))
              => (last'.result # "success" /\ wines' = wines /\ positions' = positions)]_vars

\* C4: if active wine A is at position P1 and active wine B is at another
\* position P2, move_wine_to_position(A, P2) succeeds and afterwards A is
\* at P2, B is at P1, P1 is occupied with wine_id B, P2 is occupied with
\* wine_id A, and no position is doubly occupied or occupied without a wine.
C4_SwapCorrect ==
    [][\A A, B \in WineIds, P1, P2 \in PosIds :
          (A # B /\ P1 # P2 /\ At(A, P1) /\ At(B, P2) /\ MoveWineToPositionCall(A, P2))
              => /\ last'.result = "success"
                 /\ wines'[A].position_id = P2
                 /\ wines'[B].position_id = P1
                 /\ positions'[P1].is_occupied /\ positions'[P1].wine_id = B
                 /\ positions'[P2].is_occupied /\ positions'[P2].wine_id = A
                 /\ \A q \in DOMAIN positions' :
                       positions'[q].is_occupied => Cardinality(WinesAt(q)') = 1]_vars

\* C5: whenever move_wine_to_position returns failure, every wine row and
\* every position row is as before the call.
C5_MoveAllOrNothing ==
    [][(IsMove /\ last'.result # "success")
          => (wines' = wines /\ positions' = positions)]_vars

\* wine w is consumed, has no position and no position names it
Retired(w) ==
    /\ w \in DOMAIN wines /\ wines[w].consumed
    /\ wines[w].position_id = NULL
    /\ \A p \in DOMAIN positions : positions[p].wine_id # w

\* C6: once mark_wine_consumed has succeeded for wine W, W.position_id is
\* null and no position has wine_id W in every later state, whatever is
\* called afterwards, move_wine_to_position on W included: no
\* move_wine_to_position call takes a consumed wine out of that state.
C6_ConsumedIsTerminal ==
    [][\A w \in WineIds : (Retired(w) /\ IsMove) => Retired(w)']_vars

\* C7: after mark_wine_consumed has succeeded on a wine (its consumed flag
\* is set), a second mark_wine_consumed on that wine returns failure.
C7_SecondConsumeFails ==
    \A w \in DOMAIN wines :
        wines[w].consumed => mark_wine_consumed(DB, backend, w).result = "failure"

\* C8: on both backends, moving an active wine A that has no position to a
\* position P2 occupied by another active wine W2 gives A.position_id = P2,
\* P2.wine_id = A and W2.position_id null.
C8_UnpositionedDisplaces ==
    [][\A A, W2 \in WineIds, P2 \in PosIds :
          (/\ A # W2 /\ Active(A) /\ wines[A].position_id = NULL
           /\ At(W2, P2) /\ positions[P2].is_occupied /\ positions[P2].wine_id = W2
           /\ MoveWineToPositionCall(A, P2))
              => /\ wines'[A].position_id = P2
                 /\ positions'[P2].wine_id = A
                 /\ wines'[W2].position_id = NULL]_vars

\* no two positions name the same wine, no two unconsumed wines name the
\* same position, and no unconsumed wine names a position that names
\* another wine
SwapSafe(db) ==
    /\ \A p, q \in DOMAIN db.positions :
          (p # q /\ db.positions[p].wine_id # NULL)
              => db.positions[p].wine_id # db.positions[q].wine_id
    /\ \A p \in DOMAIN db.positions : Cardinality(ActiveAt(db, p)) <= 1
    /\ \A p \in DOMAIN db.positions : \A w \in ActiveAt(db, p) :
          db.positions[p].wine_id \in {w, NULL}

\* C9: a swap by move_wine_to_position (wine A at P1 moved to P2, where
\* wine B is) that is interrupted after any prefix of its row updates
\* leaves the persisted rows with no two positions naming one wine, no two
\* active wines naming one position and no wine naming a position that
\* names another wine.  Stated for Supabase, whose every write is persisted
\* at once, and for a swap that starts from rows of which all this is true.
C9_InterruptedSwapSafe ==
    [][\A A, B \in WineIds, P1, P2 \in PosIds, n \in CutPoints :
          (/\ backend = "supabase" /\ A # B /\ P1 # P2
           /\ At(A, P1) /\ At(B, P2) /\ SwapSafe(DB)
           /\ MoveWineToPositionFailsAt(A, P2, n))
              => SwapSafe(DB')]_vars

\* C10: when mark_wine_consumed or move_wine_to_position fails after some
\* of its row updates, the same call issued again and run to its end
\* restores the occupancy invariant that held before the failed call.
\* Stated for Supabase, the backend whose handlers return the failure.
C10_RetryReconciles ==
    [][\A w \in WineIds, n \in CutPoints :
          /\ (backend = "supabase" /\ Occupancy(DB) /\ MarkWineConsumedFailsAt(w, n))
                => Occupancy(After(DB', mark_wine_consumed(DB', backend, w)))
          /\ \A p \in PosIds :
                (backend = "supabase" /\ Occupancy(DB) /\ MoveWineToPositionFailsAt(w, p, n))
                   => \A ow \in MoveOccupants(DB', backend, w, p) :
                         Occupancy(After(DB', move_wine_to_position(DB', backend, w, p, ow)))]_vars

\* C11: for an active wine W whose position_id is P,
\* move_wine_to_position(W, P) returns success and leaves every wine row
\* and every position row as before the call.
C11_SelfMoveNoOp ==
    [][\A W \in WineIds, P \in PosIds :
          (At(W, P) /\ MoveWineToPositionCall(W, P))
              => (last'.result = "success" /\ wines' = wines /\ positions' = positions)]_vars

\* C12: moving an active wine W from position P1 to an existing unoccupied
\* position P2 succeeds and leaves P1 unoccupied with null wine_id, P2
\* occupied with wine_id W, and W.position_id = P2.
C12_MoveToFree ==
    [][\A W \in WineIds, P1, P2 \in PosIds :
          (/\ P1 # P2 /\ At(W, P1)
           /\ P2 \in DOMAIN positions /\ ~positions[P2].is_occupied
           /\ MoveWineToPositionCall(W, P2))
              => /\ last'.result = "success"
                 /\ ~positions'[P1].is_occupied /\ positions'[P1].wine_id = NULL
                 /\ positions'[P2].is_occupied /\ positions'[P2].wine_id = W
                 /\ wines'[W].position_id = P2]_vars

\* a wine moved from its position onto a free one: it is where it was
\* moved to and another position is free
C12_Witness ==
    /\ last = Last("move_wine_to_position", "success", "free")
    /\ \E W \in DOMAIN wines, P1, P2 \in DOMAIN positions :
          /\ P1 # P2 /\ ~wines[W].consumed /\ wines[W].position_id = P2
          /\ positions[P2].is_occupied /\ positions[P2].wine_id = W
          /\ ~positions[P1].is_occupied /\ positions[P1].wine_id = NULL

\* C13: a successful mark_wine_consumed on an active wine W at position P
\* sets W.consumed, sets W.consumed_date, clears W.position_id and leaves P
\* unoccupied with null wine_id.
C13_ConsumeReleases ==
    [][\A W \in WineIds, P \in PosIds :
          (At(W, P) /\ MarkWineConsumedCall(W))
              => /\ last'.result = "success"
                 /\ wines'[W].consumed /\ wines'[W].consumed_date # NULL
                 /\ wines'[W].position_id = NULL
                 /\ ~positions'[P].is_occupied /\ positions'[P].wine_id = NULL]_vars

\* a wine that held a position was consumed: it is consumed with a date
\* and without position, and a position is free
C13_Witness ==
    /\ last = Last("mark_wine_consumed", "success", "released")
    /\ \E W \in DOMAIN wines :
          wines[W].consumed /\ wines[W].consumed_date = Now /\ wines[W].position_id = NULL
    /\ \E P \in DOMAIN positions : ~positions[P].is_occupied /\ positions[P].wine_id = NULL

\* C14: a mark_wine_consumed call on a wine that is already consumed never
\* changes any position's is_occupied or wine_id.
C14_NoDoubleFree ==
    [][\A W \in WineIds :
          (W \in DOMAIN wines /\ wines[W].consumed /\ MarkWineConsumedCall(W))
              => positions' = positions]_vars

\* C15: delete_wine(wine_id) on an existing wine removes the wine row and,
\* if the wine held a position, leaves that position unoccupied with null
\* wine_id.
C15_DeleteRemoves ==
    [][\A W \in WineIds :
          (W \in DOMAIN wines /\ DeleteWineCall(W))
              => /\ W \notin DOMAIN wines'
                 /\ \A P \in DOMAIN positions :
                       wines[W].position_id = P
                          => (~positions'[P].is_occupied /\ positions'[P].wine_id = NULL)]_vars

\* C16: add_wine of a new wine W with the id of an existing unoccupied
\* position P succeeds, inserts W unconsumed with position_id P, sets P
\* occupied with wine_id W and changes no other wine or position.
C16_AddAtFreePosition ==
    [][\A W \in WineIds, P \in PosIds :
          (/\ W \notin DOMAIN wines
           /\ P \in DOMAIN positions /\ ~positions[P].is_occupied
           /\ AddWineCall(W, P))
              => /\ last'.result = "success"
                 /\ DOMAIN wines' = DOMAIN wines \cup {W}
                 /\ wines'[W] = WineRow(P)
                 /\ \A v \in DOMAIN wines : wines'[v] = wines[v]
                 /\ positions'[P].is_occupied /\ positions'[P].wine_id = W
                 /\ \A q \in DOMAIN positions : q # P => positions'[q] = positions[q]]_vars

\* a wine was just added at a position: the newest wine is unconsumed and
\* the position it names names it
C16_Witness ==
    /\ last = Last("add_wine", "success", "inserted")
    /\ \E W \in DOMAIN wines, P \in DOMAIN positions :
          /\ \A v \in DOMAIN wines : v <= W
          /\ wines[W] = WineRow(P)
          /\ positions[P].is_occupied /\ positions[P].wine_id = W

\* a wine that was consumed and that the default listing leaves out
Hidden(w) ==
    /\ w \in DOMAIN wines /\ wines[w].consumed
    /\ w \notin get_wines(DB, backend, FALSE)

\* C19: once mark_wine_consumed has succeeded for W, get_wines() with the
\* default include_consumed=False returns W neither right after the call
\* nor after any later call.
C19_ConsumedStaysHidden ==
    [][\A W \in WineIds :
          (\/ W \in DOMAIN wines /\ MarkWineConsumedCall(W) /\ last'.result = "success"
           \/ Hidden(W))
              => Hidden(W)']_vars

\* a consumed wine was moved to a position afterwards: the default listing
\* returns other wines and not this one
C19_Witness ==
    /\ last.op = "move_wine_to_position" /\ last.result = "success"
    /\ get_wines(DB, backend, FALSE) # {}
    /\ \E W \in DOMAIN wines :
          /\ wines[W].consumed /\ wines[W].position_id \in DOMAIN positions
          /\ W \notin get_wines(DB, backend, FALSE)

\* C20: get_wines(include_consumed=True) returns every consumed wine (and
\* every other wine row) on both backends.
C20_IncludeConsumedReturnsAll ==
    \A W \in DOMAIN wines : wines[W].consumed => W \in get_wines(DB, backend, TRUE)

\* C17: the same save_storage, add_wine, mark_wine_consumed and
\* move_wine_to_position calls made on the SQLite and on the Supabase
\* backend return the same results and leave the same wines and positions;
\* stated for a move_wine_to_position made when the two agreed so far.
C17_BackendsAgree ==
    [][(Agree /\ last'.op = "move_wine_to_position") => Agree']_vars

\* C18: when two add flows have both selected position P as available and
\* both confirm, the second add_wine is rejected: the flow that confirms
\* when a wine already holds P does not put its wine at P.
C18_RaceRejected ==
    [][\A s \in Sessions, W \in WineIds, P \in PosIds :
          (picked[s] = P /\ WinesAt(P) # {} /\ ConfirmAddCall(s, W))
              => W \notin WinesAt(P)']_vars

\* C25: every public store operation ends by returning a success or failure
\* value, never by raising.
C25_NeverRaises == last.result # "raised"

\* C26: for every position P and every unconsumed wine W, P.wine_id = W if
\* and only if W.position_id = P; stated in the direction from the wine:
\* the position an unconsumed wine references names that wine.
C26_MutualBackReference ==
    \A P \in DOMAIN positions, W \in DOMAIN wines :
        (~wines[W].consumed /\ wines[W].position_id = P) => positions[P].wine_id = W

\* C27: mark_wine_consumed and move_wine_to_position called with a wine id
\* that matches no wine row return failure and change no wine row and no
\* position row.
C27_UnknownWineRefused ==
    [][\A W \in WineIds \cup {NoSuchWine}, P \in PosIds \cup {NoSuchPosition} :
          (W \notin DOMAIN wines /\ (MarkWineConsumedCall(W) \/ MoveWineToPositionCall(W, P)))
              => (last'.result = "failure" /\ wines' = wines /\ positions' = positions)]_vars

\* a call with an unknown wine id was refused while a wine holds a position
C27_Witness ==
    /\ last.result = "failure" /\ last.path = "no_wine"
    /\ last.op \in {"mark_wine_consumed", "move_wine_to_position"}
    /\ \E W \in DOMAIN wines, P \in DOMAIN positions : At(W, P) /\ positions[P].wine_id = W

\* C29: whenever none of the parser's strategies parses the raw output,
\* get_storage_configuration returns a failure result or success with the
\* fixed default layout, never success with absent data.
C29_UnparseableFailsOrDefault ==
    [][\A api_ok \in BOOLEAN :
          (Unparseable(response) /\ GetStorageConfigurationCall(api_ok))
              => LET r == get_storage_configuration(api_ok, response)
                 IN ~r.success \/ r.data = DefaultLayout]_vars

\* C28: save_storage is all-or-nothing: when it fails partway (here: a
\* zone of the layout lacks its positions list), no storage row and no
\* position row of that call is visible afterwards, so has_storage() is as
\* it was.
C28_SaveStorageAllOrNothing ==
    [][(last'.op = "save_storage" /\ last'.result # "success")
          => (storage' = storage /\ positions' = positions)]_vars

\* C30: in the mark_consumed and select_new_position modes, when
\* mark_wine_consumed or move_wine_to_position returns failure, the
\* assistant message appended is not the "marked as consumed" nor the
\* "successfully relocated" message.
C30_ChatReportsFailure ==
    [][((IsConsume \/ IsMove) /\ last'.result = "failure")
          => message' \notin {"marked_consumed", "relocated"}]_vars

\* the keyword looked for in the zone names for the colour inferred from d
Keyword(d) ==
    IF is_white_wine(d) THEN <<"W", "h", "i", "t", "e">> ELSE <<"R", "e", "d">>

NoZoneMatches(list, d) ==
    \A i \in DOMAIN list : ~In(Keyword(d), Spelling(list[i].zone))

\* C23: whenever at least one position is available and no available
\* position's zone name contains the keyword for the inferred colour
\* ("White" for a white wine, "Red" otherwise, case-sensitive), the
\* suggested position is the first one of the full available list, and is
\* never none.
C23_AllocatorFallback ==
    \A d \in Descriptions :
        LET list == AvailablePositions(DB, backend)
        IN (list # <<>> /\ NoZoneMatches(list, d))
              => (Suggest(list, d) = list[1].id /\ Suggest(list, d) # NULL)

\* a white wine to add when the white zone is there but full: the
\* suggestion is the first available position, in another zone
C23_Witness ==
    \E d \in Descriptions :
        LET list == AvailablePositions(DB, backend)
        IN /\ is_white_wine(d)
           /\ \E p \in DOMAIN positions : positions[p].zone = "White Wine Zone"
           /\ list # <<>> /\ NoZoneMatches(list, d)
           /\ Suggest(list, d) = list[1].id
           /\ last.op = "add_wine"

\* kw occurs in text, letters compared without regard to case
ContainsIgnoringCase(kw, text) ==
    \E i \in 0..(Len(text) - Len(kw)) :
        \A k \in 1..Len(kw) : LowerChar(text[i + k]) = LowerChar(kw[k])

\* the policy's classification: on the wine_type of a structured
\* description, on the text of any other
ClassifiedWhite(d) ==
    LET t == IF d.structured THEN d.wine_type ELSE d.text
    IN \/ ContainsIgnoringCase(<<"w", "h", "i", "t", "e">>, t)
       \/ ContainsIgnoringCase(<<"b", "l", "a", "n", "c">>, t)

PolicyKeyword(d) ==
    IF ClassifiedWhite(d) THEN <<"W", "h", "i", "t", "e">> ELSE <<"R", "e", "d">>

ZoneMatches(list, d) == {i \in DOMAIN list : In(PolicyKeyword(d), Spelling(list[i].zone))}

\* C24: a wine is classified white iff its wine_type (structured) or its
\* description text contains "white" or "blanc" case-insensitively, and red
\* otherwise; the suggested position is the first position, in the order of
\* the available list, whose zone name contains "White" (white wine) or
\* "Red" (red wine), when there is such a position.
C24_AllocatorPolicy ==
    \A d \in Descriptions :
        LET list == AvailablePositions(DB, backend)
            matches == ZoneMatches(list, d)
        IN /\ is_white_wine(d) <=> ClassifiedWhite(d)
           /\ matches # {} =>
                 \E i \in matches :
                    /\ \A j \in matches : i <= j
                    /\ Suggest(list, d) = list[i].id

\* a wine was added, and for a red wine to add the first position whose
\* zone matches is not the first available one
C24_Witness ==
    \E d \in Descriptions :
        LET list == AvailablePositions(DB, backend)
            matches == ZoneMatches(list, d)
        IN /\ ~ClassifiedWhite(d)
           /\ matches # {} /\ 1 \notin matches
           /\ \E i \in matches : Suggest(list, d) = list[i].id
           /\ last.op = "add_wine"

\* what a listing says of one position, and what it says of a position
\* that is listed in a layout and unoccupied
ReturnedEntries(list) ==
    [k \in DOMAIN list |->
        [zone |-> list[k].zone, identifier |-> list[k].identifier,
         is_occupied |-> list[k].is_occupied, wine_id |-> list[k].wine_id]]

ListedEntries(zones) ==
    [k \in DOMAIN LayoutPositions(zones) |->
        [zone |-> LayoutPositions(zones)[k].zone,
         identifier |-> LayoutPositions(zones)[k].identifier,
         is_occupied |-> FALSE, wine_id |-> NULL]]

\* a and b hold the same entries the same number of times
SameEntries(a, b) ==
    /\ Len(a) = Len(b)
    /\ \A k \in DOMAIN a :
          Cardinality({i \in DOMAIN a : a[i] = a[k]}) = Cardinality({i \in DOMAIN b : b[i] = a[k]})

\* C22 as stated: after save_storage succeeds on a layout, get_all_positions
\* returns exactly one position per listed (zone, identifier) entry, with
\* the listed zone name and identifier, is_occupied false and null wine_id.
C22_LayoutRoundTrip ==
    [][\A r \in ParsedResults :
          (last'.op = "save_storage" /\ last'.result = "success" /\ r.success /\ StorageSetupCall(r))
             => SameEntries(ReturnedEntries(get_all_positions(After(DB, create_storage(DB, backend, r.data)), backend)),
                            ListedEntries(r.data.zones))]_vars

\* C22, amended: after save_storage succeeds on a layout, the positions
\* get_all_positions returns that were not there before the call are
\* exactly one per listed (zone, identifier) entry, with the listed zone
\* name and identifier, is_occupied false and null wine_id; the positions
\* of earlier layouts are returned with them.
C22_NewPositionsRoundTrip ==
    [][\A r \in ParsedResults :
          (last'.op = "save_storage" /\ last'.result = "success" /\ r.success /\ StorageSetupCall(r))
             => LET before == DOMAIN positions
                    returned == get_all_positions(After(DB, create_storage(DB, backend, r.data)), backend)
                IN /\ SameEntries(ReturnedEntries(SelectSeq(returned, LAMBDA row : row.id \notin before)),
                                  ListedEntries(r.data.zones))
                   /\ \A p \in before : \E k \in DOMAIN returned : returned[k].id = p]_vars

\* a second layout was saved over one that has a wine in it
C22_Witness ==
    /\ last.op = "save_storage" /\ last.result = "success"
    /\ storage = 2
    /\ \E p, q \in DOMAIN positions : positions[p].is_occupied /\ ~positions[q].is_occupied

\* the cellar of the scenario: W1, W2 in the White Wine Zone and R1, R2 in
\* the Red Wine Zone, and nothing else
ScenarioCellar ==
    [p \in DOMAIN positions |-> [zone |-> positions[p].zone, identifier |-> positions[p].identifier]]
        = LayoutPositions(<<ZoneOf("W"), ZoneOf("R")>>)

ScenarioPos(ident) == CHOOSE p \in DOMAIN positions : positions[p].identifier = ident

Free(ident) ==
    LET p == ScenarioPos(ident)
    IN ~positions[p].is_occupied /\ positions[p].wine_id = NULL /\ WinesAt(p) = {}

Holds(ident, w) ==
    LET p == ScenarioPos(ident)
    IN positions[p].is_occupied /\ positions[p].wine_id = w /\ WinesAt(p) = {w}

\* C21: with zones White Wine Zone (W1, W2) and Red Wine Zone (R1, R2) all
\* free, adding a white wine at the allocator's suggestion places it at W1;
\* adding a red wine at the allocator's suggestion then places it at R1;
\* moving the white wine to R1 then swaps them (red at W1, white at R1);
\* consuming the red wine then leaves W1 free, R1 occupied by the white
\* wine, and the red wine absent from the default get_wines() listing.
C21_Scenario ==
    [][ScenarioCellar =>
          /\ (IsAdd /\ Free("W2") /\ Free("R1") /\ Free("R2")) =>
                \A d \in Descriptions, A \in WineIds :
                   LET suggested == Suggest(AvailablePositions(DB, backend), d)
                   IN /\ (Free("W1") /\ ClassifiedWhite(d) /\ AppAddCall(A, d, suggested))
                         => (Holds("W1", A) /\ Free("W2") /\ Free("R1") /\ Free("R2"))'
                      /\ \A B \in WineIds :
                            (Holds("W1", A) /\ ~ClassifiedWhite(d) /\ AppAddCall(B, d, suggested))
                               => (Holds("W1", A) /\ Free("W2") /\ Holds("R1", B) /\ Free("R2"))'
          /\ (IsMove /\ Free("W2") /\ Free("R2")) =>
                \A A, B \in WineIds :
                   (Holds("W1", A) /\ Holds("R1", B) /\ ChatMoveCall(A, ScenarioPos("R1")))
                      => (Holds("W1", B) /\ Free("W2") /\ Holds("R1", A) /\ Free("R2"))'
          /\ (IsConsume /\ Free("W2") /\ Free("R2")) =>
                \A A, B \in WineIds :
                   (Holds("W1", B) /\ Holds("R1", A) /\ ChatMarkConsumedCall(B))
                      => (/\ Free("W1") /\ Free("W2") /\ Holds("R1", A) /\ Free("R2")
                          /\ B \notin get_wines(DB, backend, FALSE))']_vars

\* the end of the scenario: the second wine added was consumed at W1 and
\* the first one is at R1
C21_Witness ==
    /\ ScenarioCellar
    /\ last.op = "mark_wine_consumed" /\ last.result = "success"
    /\ Free("W1") /\ Free("W2") /\ Holds("R1", 1) /\ Free("R2")
    /\ 2 \in DOMAIN wines /\ wines[2].consumed
    /\ 2 \notin get_wines(DB, backend, FALSE)
    /\ DOMAIN wines = {1, 2}

C37_FlagAgreesWithReference ==
    \A p \in DOMAIN positions : positions[p].is_occupied <=> positions[p].wine_id # NULL

\* positions of both kinds after each of the three operations took a
\* branch that writes a position row
C37_Witness ==
    /\ last.op = "move_wine_to_position" /\ last.path = "occupied"
    /\ \E p, q \in DOMAIN positions :
          /\ positions[p].is_occupied /\ positions[p].wine_id # NULL
          /\ ~positions[q].is_occupied /\ positions[q].wine_id = NULL
    /\ \E w \in DOMAIN wines : wines[w].consumed

\* C38: get_wines() with the default flag returns every unconsumed wine,
\* the unconsumed wines whose position_id is null included, on both
\* backends.
C38_DefaultListingComplete ==
    \A w \in DOMAIN wines : ~wines[w].consumed => w \in get_wines(DB, backend, FALSE)

\* C39: a successful move_wine_to_position(W, D) changes at most the rows
\* of W, of the wine displaced from D, of W's source position and of D;
\* every other wine row and position row, and the consumed flag of every
\* wine, stays as it was.  The wine displaced from D is a wine recorded at
\* D before the call, by its own position_id or by D's wine_id.
C39_MoveFrame ==
    [][\A W \in WineIds, D \in PosIds :
          (IsMove /\ last'.result = "success" /\ W \in DOMAIN wines
                  /\ MoveWineToPositionCall(W, D))
             => /\ \E X \in {x \in DOMAIN wines : wines[x].position_id = D \/ positions[D].wine_id = x}
                                \cup {NULL} :
                      \A v \in DOMAIN wines \ {W, X} : wines'[v] = wines[v]
                /\ \A q \in DOMAIN positions \ {wines[W].position_id, D} :
                      positions'[q] = positions[q]
                /\ DOMAIN wines' = DOMAIN wines /\ DOMAIN positions' = DOMAIN positions
                /\ \A v \in DOMAIN wines : wines'[v].consumed = wines[v].consumed]_vars

\* a swap went through while a third wine was in the table
C39_Witness ==
    /\ last.op = "move_wine_to_position" /\ last.result = "success" /\ last.path = "occupied"
    /\ Cardinality(DOMAIN wines) = 3
    /\ \E w \in DOMAIN wines : wines[w].consumed

\* C40: once a wine's consumed flag is true it is true in every later
\* state, and no add_wine, mark_wine_consumed or move_wine_to_position call
\* ever removes a wine row.
C40_ConsumptionMonotonic ==
    [][\A w \in DOMAIN wines :
          /\ w \in DOMAIN wines'
          /\ wines[w].consumed => wines'[w].consumed]_vars

\* a consumed wine was the argument of a move that went through
C40_Witness ==
    /\ last.op = "move_wine_to_position" /\ last.result = "success"
    /\ \E w \in DOMAIN wines, p \in DOMAIN positions :
          wines[w].consumed /\ wines[w].position_id = p

\* C31: starting from a freshly built layout, after every sequence of
\* operations in which add_wine is only given an existing unoccupied
\* position, mark_wine_consumed only an existing unconsumed wine, and
\* move_wine_to_position only an existing unconsumed positioned wine and an
\* existing position, every position is occupied iff exactly one
\* unconsumed wine references it.
C31_ValidatedCallsKeepOccupancy == Occupancy(DB)

\* two wines were swapped after a third was consumed
C31_Witness ==
    /\ last.op = "move_wine_to_position" /\ last.path = "occupied"
    /\ \E w \in DOMAIN wines : wines[w].consumed
    /\ \E p, q \in DOMAIN positions : positions[p].is_occupied /\ ~positions[q].is_occupied

\* C32: in the add-wine flow, when the user confirms without choosing
\* another position in the dropdown, the wine is added at the position the
\* allocator suggested.
C32_ConfirmAddsAtSuggestion ==
    [][IsAdd =>
          \A w \in WineIds, d \in Descriptions :
             LET list == AvailablePositions(DB, backend)
             IN (list # <<>> /\ AppAddCall(w, d, DefaultSelection(list)))
                   => wines'[w].position_id = Suggest(list, d)]_vars

C35_SwapReachableWhenFull ==
    [][\A w \in WineIds :
          (/\ ChangePositionCall(w)
           /\ \E p \in DOMAIN positions : p # wines[w].position_id)
             => conversation_mode' = "select_new_position"]_vars

\* C36: after a wrong password was entered the session can still be
\* authenticated by entering the correct one: while password_correct is not
\* True, entering the correct password is possible.
C36_PasswordGateRecovers ==
    password_correct # "true" => ENABLED PasswordEnteredCall(TRUE)
====
